---- MODULE Spec2Model ----
(***************************************************************************)
(* A model of the rra repository: the combat-log aggregator                *)
(* (src/src/logParser.js, calculateStats), the combat-line parser          *)
(* (src/src/logParser.js, parseCombatLine / parseLogContent), the turret   *)
(* hit-chance calculator (src/src/calculator.js) and the SSO handlers      *)
(* (src/src/sso.js, createSSOHandlers).                                    *)
(*                                                                         *)
(* The four components share no state.  Each has its own specification     *)
(* (SpecStats, SpecParser, SpecCalc, SpecSso); the variable `component`    *)
(* says which one a behaviour exercises, and Spec is their union.          *)
(***************************************************************************)
EXTENDS Integers, Sequences, FiniteSets, TLC

VARIABLES
    component,  \* "stats" | "parser" | "calc" | "sso": the component this behaviour runs
    events,     \* calculateStats: the argument, a sequence of combat events
    idx,        \* calculateStats: number of events the for-loop has consumed
    stats,      \* calculateStats: the local `stats` object
    statsPc,    \* calculateStats: "loop" | "done" (returned); "idle" elsewhere
    params,     \* calculator: the request parameters
    maxTransversal, \* calculator: what calculateMaxTransversal returned
    hit,        \* calculator: what calculateHitChance returned
    calcPc,     \* calculator: "start" | "inverse" | "forward" | "roundtrip"
    logContent, \* parseLogContent: the argument `content`, the text of a log
    lines,      \* parseLogContent: content.split('\n')
    lineIdx,    \* parseLogContent: number of lines the for-loop has consumed
    parsedEvents, \* parseLogContent: the local `events` array
    lastEvent,  \* parseLogContent: what parseCombatLine returned for the last line
    parserPc,   \* parseLogContent: "loop" | "done" (returned); "idle" elsewhere
    session,    \* SSO: req.session, the fields the handlers read and write
    query,      \* SSO: req.query of the last callback request
    response,   \* SSO: how the last request ended
    ssoPc       \* SSO: "ready" | "exchange" (callback awaiting the provider)

statsVars == <<events, idx, stats, statsPc>>
calcVars == <<params, maxTransversal, hit, calcPc>>
parserVars == <<logContent, lines, lineIdx, parsedEvents, lastEvent, parserPc>>
ssoVars == <<session, query, response, ssoPc>>
vars ==
    <<component, events, idx, stats, statsPc, params, maxTransversal, hit, calcPc,
      logContent, lines, lineIdx, parsedEvents, lastEvent, parserPc,
      session, query, response, ssoPc>>

(***************************************************************************)
(* Bounds of the model.                                                    *)
(***************************************************************************)
MaxEvents == 3

(***************************************************************************)
(* Exact rational arithmetic.  JavaScript numbers are IEEE doubles; the    *)
(* model computes the same expressions over exact rationals.               *)
(***************************************************************************)
Abs(x) == IF x < 0 THEN -x ELSE x

RECURSIVE Gcd(_, _)
Gcd(a, b) == IF b = 0 THEN a ELSE Gcd(b, a % b)

\* The rational n/d (d # 0) in lowest terms with a positive denominator.
Rat(n, d) ==
    LET g == Gcd(Abs(n), Abs(d))
        s == IF d < 0 THEN -1 ELSE 1
    IN  [n |-> (s * n) \div g, d |-> (s * d) \div g]

RatInt(k) == [n |-> k, d |-> 1]
RatMul(a, b) == Rat(a.n * b.n, a.d * b.d)
RatDiv(a, b) == Rat(a.n * b.d, a.d * b.n)
RatAdd(a, b) == Rat(a.n * b.d + b.n * a.d, a.d * b.d)
RatSub(a, b) == Rat(a.n * b.d - b.n * a.d, a.d * b.d)
RatLt(a, b) == a.n * b.d < b.n * a.d
RatLe(a, b) == a.n * b.d <= b.n * a.d
RatSign(a) == IF a.n > 0 THEN 1 ELSE IF a.n < 0 THEN -1 ELSE 0

(***************************************************************************)
(* JavaScript values held in the stats maps.                               *)
(*   `{}` is a plain object: a read of a key it does not own falls through *)
(*   to Object.prototype, so obj["constructor"] is a function, not         *)
(*   undefined.                                                            *)
(***************************************************************************)
JsNumber(k) == [kind |-> "number", n |-> k, text |-> <<>>]
JsString(t) == [kind |-> "string", n |-> 0, text |-> t]
JsFunction(name) == [kind |-> "function", n |-> 0, text |-> <<name>>]
JsUndefined == [kind |-> "undefined", n |-> 0, text |-> <<>>]

\* Property names every object literal inherits from Object.prototype.
ObjectPrototypeKeys ==
    {"constructor", "toString", "valueOf", "hasOwnProperty", "isPrototypeOf",
     "propertyIsEnumerable", "toLocaleString"}

\* obj[key]: the own property, else the inherited one, else undefined.
Get(obj, key) ==
    IF key \in DOMAIN obj THEN obj[key]
    ELSE IF key \in ObjectPrototypeKeys THEN JsFunction(key)
    ELSE JsUndefined

\* obj[key] = val (creates or overwrites an own property).
Set(obj, key, val) ==
    [k \in (DOMAIN obj) \cup {key} |-> IF k = key THEN val ELSE obj[k]]

Truthy(v) ==
    CASE v.kind = "number" -> v.n # 0
      [] v.kind = "string" -> v.text # <<>>
      [] v.kind = "function" -> TRUE
      [] OTHER -> FALSE

\* `v || 0`
OrZero(v) == IF Truthy(v) THEN v ELSE JsNumber(0)

\* String(v), as a sequence of text pieces.
ToText(v) ==
    CASE v.kind = "number" -> <<ToString(v.n)>>
      [] v.kind = "string" -> v.text
      [] v.kind = "function" -> <<"function ">> \o v.text \o <<"() { [native code] }">>
      [] OTHER -> <<"undefined">>

\* `v + k` for a number k: numeric addition when v is a number, string
\* concatenation when v is a string or a function.
Plus(v, k) ==
    IF v.kind = "number" THEN JsNumber(v.n + k)
    ELSE JsString(ToText(v) \o <<ToString(k)>>)

(***************************************************************************)
(* Combat events.  A string field holds "" when the event has no such      *)
(* field (undefined and "" are both falsy, and the aggregator only tests   *)
(* truthiness).  A timestamp is a Date, modelled by its millisecond value, *)
(* or Null.  A Date object is truthy whatever its value.                   *)
(***************************************************************************)
Null == -1

Event(type, damage, target, weapon, hitQuality, timestamp) ==
    [type |-> type, damage |-> damage, target |-> target, weapon |-> weapon,
     hitQuality |-> hitQuality, timestamp |-> timestamp]

\* The events the model feeds to calculateStats.  Parsed damage amounts are
\* non-negative integers; a miss event can carry a damage field (a line that
\* also matched the damage-dealt pattern).
EventDomain ==
    { Event("damage_dealt", 5, "Alpha", "Railgun", "hits", 1000),
      Event("damage_dealt", 3, "Beta", "", "", Null),
      Event("damage_dealt", 7, "constructor", "Railgun", "wrecks", 3000),
      Event("damage_dealt", 5, "constructor", "", "", Null),
      Event("damage_dealt", 2, "", "Blaster", "", 1000),
      Event("damage_dealt", 0, "Alpha", "Blaster", "grazes", 0),
      Event("damage_received", 4, "Alpha", "Railgun", "hits", 0),
      Event("damage_received", 6, "", "", "", Null),
      Event("miss", 9, "Alpha", "Railgun", "", 2000),
      Event("miss", 0, "you", "", "", Null),
      Event("unknown", 0, "", "Blaster", "hits", 4000) }

RECURSIVE SeqsUpTo(_, _)
SeqsUpTo(S, n) ==
    IF n = 0 THEN {<<>>}
    ELSE LET shorter == SeqsUpTo(S, n - 1)
         IN  shorter \cup {Append(s, e) : s \in {t \in shorter : Len(t) = n - 1}, e \in S}

(***************************************************************************)
(* calculateStats (logParser.js 152-219).                                  *)
(***************************************************************************)
EmptyMap == [k \in {} |-> JsUndefined]

\* The dps property: absent (undefined) until the final block assigns it.
NoDps == [defined |-> FALSE, n |-> 0, d |-> 1]
DpsOf(r) == [defined |-> TRUE, n |-> r.n, d |-> r.d]

InitialStats ==
    [totalDamageDealt |-> 0,
     totalDamageReceived |-> 0,
     shotsHit |-> 0,
     shotsMissed |-> 0,
     hitRate |-> RatInt(0),
     targets |-> EmptyMap,
     weapons |-> EmptyMap,
     hitQualities |-> EmptyMap,
     timespan |-> [start |-> Null, end |-> Null],
     dps |-> NoDps]

\* TrackTimespan with the two tests chained: an event that lowers the start
\* is not tried against the end.
TrackTimespan_ElseIf(ts, e) ==
    IF e.timestamp # Null
    THEN IF ts.start = Null \/ e.timestamp < ts.start
         THEN [ts EXCEPT !.start = e.timestamp]
         ELSE IF ts.end = Null \/ e.timestamp > ts.end
              THEN [ts EXCEPT !.end = e.timestamp]
              ELSE ts
    ELSE ts

\* Lines 167-174: running minimum and maximum of the timestamps.
TrackTimespan(ts, e) ==
    IF e.timestamp # Null
    THEN LET s == IF ts.start = Null \/ e.timestamp < ts.start
                  THEN e.timestamp ELSE ts.start
             n == IF ts.end = Null \/ e.timestamp > ts.end
                  THEN e.timestamp ELSE ts.end
         IN  [start |-> s, end |-> n]
    ELSE ts

NewWeapon == [damage |-> 0, hits |-> 0, misses |-> 0]

\* Lines 185-189 and 201-204: `if (!stats.weapons[w]) stats.weapons[w] = {...}`
\* then the field updates.  When w names an inherited property the test is
\* false and the updates land on the inherited object: the map is unchanged.
UpdateWeapon(weapons, w, dDamage, dHits, dMisses) ==
    IF w \in DOMAIN weapons
    THEN [weapons EXCEPT ![w] = [damage |-> @.damage + dDamage,
                                 hits |-> @.hits + dHits,
                                 misses |-> @.misses + dMisses]]
    ELSE IF w \in ObjectPrototypeKeys THEN weapons
    ELSE [k \in (DOMAIN weapons) \cup {w} |->
            IF k = w THEN [damage |-> NewWeapon.damage + dDamage,
                           hits |-> NewWeapon.hits + dHits,
                           misses |-> NewWeapon.misses + dMisses]
            ELSE weapons[k]]

\* Lines 181 and 193: `obj[key] = (obj[key] || 0) + amount`.
Accumulate(obj, key, amount) == Set(obj, key, Plus(OrZero(Get(obj, key)), amount))

\* Lines 176-194.
OnDamageDealt(s, e) ==
    [s EXCEPT
        !.totalDamageDealt = @ + e.damage,
        !.shotsHit = @ + 1,
        !.targets = IF e.target # "" THEN Accumulate(@, e.target, e.damage) ELSE @,
        !.weapons = IF e.weapon # "" THEN UpdateWeapon(@, e.weapon, e.damage, 1, 0) ELSE @,
        !.hitQualities = IF e.hitQuality # "" THEN Accumulate(@, e.hitQuality, 1) ELSE @]

\* OnDamageReceived also keeping a per-weapon record of the event.
OnDamageReceived_TrackedPerWeapon(s, e) ==
    [s EXCEPT
        !.totalDamageReceived = @ + e.damage,
        !.weapons = IF e.weapon # "" THEN UpdateWeapon(@, e.weapon, 0, 0, 0) ELSE @]

\* Lines 195-196.
OnDamageReceived(s, e) ==
    [s EXCEPT !.totalDamageReceived = @ + e.damage]

\* OnMiss with the miss counted inside the weapon test.
OnMiss_CountedPerWeapon(s, e) ==
    IF e.weapon # ""
    THEN [s EXCEPT !.shotsMissed = @ + 1,
                   !.weapons = UpdateWeapon(@, e.weapon, 0, 0, 1)]
    ELSE s

\* Lines 197-205.
OnMiss(s, e) ==
    [s EXCEPT
        !.shotsMissed = @ + 1,
        !.weapons = IF e.weapon # "" THEN UpdateWeapon(@, e.weapon, 0, 0, 1) ELSE @]

\* One iteration of the for-loop, lines 165-207.
ProcessEvent(s, e) ==
    LET t == [s EXCEPT !.timespan = TrackTimespan(@, e)]
    IN  CASE e.type = "damage_dealt" -> OnDamageDealt(t, e)
          [] e.type = "damage_received" -> OnDamageReceived(t, e)
          [] e.type = "miss" -> OnMiss(t, e)
          [] OTHER -> t

\* Line 210.
HitRate(shotsHit, shotsMissed) ==
    LET totalShots == shotsHit + shotsMissed
    IN  IF totalShots > 0
        THEN RatMul(Rat(shotsHit, totalShots), RatInt(100))
        ELSE RatInt(0)

\* Dps leaving the property unset when the span is not positive.
Dps_UnsetOnEmptySpan(s) ==
    IF s.timespan.start # Null /\ s.timespan.end # Null
    THEN LET durationSeconds == Rat(s.timespan.end - s.timespan.start, 1000)
         IN  IF RatSign(durationSeconds) > 0
             THEN DpsOf(RatDiv(RatInt(s.totalDamageDealt), durationSeconds))
             ELSE NoDps
    ELSE NoDps

\* Lines 213-216.
Dps(s) ==
    IF s.timespan.start # Null /\ s.timespan.end # Null
    THEN LET durationSeconds == Rat(s.timespan.end - s.timespan.start, 1000)
         IN  IF RatSign(durationSeconds) > 0
             THEN DpsOf(RatDiv(RatInt(s.totalDamageDealt), durationSeconds))
             ELSE DpsOf(RatInt(0))
    ELSE NoDps

\* Lines 209-218: the code after the loop.
Finalize(s) ==
    LET withRate == [s EXCEPT !.hitRate = HitRate(s.shotsHit, s.shotsMissed)]
    IN  [withRate EXCEPT !.dps = Dps(withRate)]


\* Lines 165-207: the for-loop over evs, from the stats s.
RECURSIVE Aggregate(_, _)
Aggregate(s, evs) ==
    IF evs = <<>> THEN s ELSE Aggregate(ProcessEvent(s, Head(evs)), Tail(evs))

\* Lines 152-219.
calculateStats(evs) == Finalize(Aggregate(InitialStats, evs))

(***************************************************************************)
(* JavaScript numbers of the calculator.  A finite number is held exactly  *)
(* as c * sqrt(rad) * 0.5^e with c and e rational and rad a square-free    *)
(* positive integer (rad = 1 and e = 0 for a rational; c = 0 only as       *)
(* 0 * sqrt(1) * 0.5^0).  Square roots and powers of 0.5 are then exact    *)
(* where a double rounds.  The other kinds are +Infinity, -Infinity and    *)
(* NaN, with the IEEE rules for them.  Zero is unsigned.                   *)
(***************************************************************************)
Fin3(c, rad, e) ==
    IF c.n = 0
    THEN [kind |-> "fin", c |-> RatInt(0), rad |-> 1, e |-> RatInt(0)]
    ELSE [kind |-> "fin", c |-> c, rad |-> rad, e |-> e]
Fin(c) == Fin3(c, 1, RatInt(0))
Num(k) == Fin(RatInt(k))
Frac(n, d) == Fin(Rat(n, d))
PosInf == [kind |-> "inf", c |-> RatInt(1), rad |-> 1, e |-> RatInt(0)]
NegInf == [kind |-> "ninf", c |-> RatInt(-1), rad |-> 1, e |-> RatInt(0)]
NaN == [kind |-> "nan", c |-> RatInt(0), rad |-> 1, e |-> RatInt(0)]

IsNaN(x) == x.kind = "nan"
IsFinite(x) == x.kind = "fin"
IsRational(x) == x.kind = "fin" /\ x.rad = 1 /\ x.e = RatInt(0)
Sign(x) ==
    CASE x.kind = "fin" -> RatSign(x.c)
      [] x.kind = "inf" -> 1
      [] x.kind = "ninf" -> -1
      [] OTHER -> 0
Signed(s) == IF s > 0 THEN PosInf ELSE NegInf

\* The largest a in 1..k with a*a dividing n.
RECURSIVE SquareDivisor(_, _)
SquareDivisor(n, k) ==
    IF k <= 1 THEN 1
    ELSE IF k * k <= n /\ n % (k * k) = 0 THEN k
    ELSE SquareDivisor(n, k - 1)

RECURSIVE FloorSqrt(_, _)
FloorSqrt(n, k) == IF (k + 1) * (k + 1) > n THEN k ELSE FloorSqrt(n, k + 1)

\* c * sqrt(n) for a positive integer n, with the square part of n moved out.
Surd(c, n, e) ==
    LET a == SquareDivisor(n, FloorSqrt(n, 0))
    IN  Fin3(RatMul(c, RatInt(a)), n \div (a * a), e)

Neg(x) ==
    CASE x.kind = "fin" -> Fin3(Rat(-x.c.n, x.c.d), x.rad, x.e)
      [] x.kind = "inf" -> NegInf
      [] x.kind = "ninf" -> PosInf
      [] OTHER -> NaN

\* a * b
Mul(a, b) ==
    CASE IsNaN(a) \/ IsNaN(b) -> NaN
      [] ~IsFinite(a) \/ ~IsFinite(b) ->
            IF Sign(a) * Sign(b) = 0 THEN NaN ELSE Signed(Sign(a) * Sign(b))
      [] OTHER -> Surd(RatMul(a.c, b.c), a.rad * b.rad, RatAdd(a.e, b.e))

\* a / b
Div(a, b) ==
    CASE IsNaN(a) \/ IsNaN(b) -> NaN
      [] ~IsFinite(a) /\ ~IsFinite(b) -> NaN
      [] ~IsFinite(a) -> Signed(Sign(a) * (IF Sign(b) < 0 THEN -1 ELSE 1))
      [] ~IsFinite(b) -> Num(0)
      [] Sign(b) = 0 -> IF Sign(a) = 0 THEN NaN ELSE Signed(Sign(a))
      [] OTHER ->
            \* (ca sqrt(ra)) / (cb sqrt(rb)) = (ca / (cb rb)) sqrt(ra rb)
            Surd(RatDiv(a.c, RatMul(b.c, RatInt(b.rad))), a.rad * b.rad,
                 RatSub(a.e, b.e))

\* a + b.  Two finite numbers are added when one is 0 or both have the same
\* irrational part; the calculator adds nothing else.
Add(a, b) ==
    CASE IsNaN(a) \/ IsNaN(b) -> NaN
      [] ~IsFinite(a) /\ ~IsFinite(b) -> IF a.kind = b.kind THEN a ELSE NaN
      [] ~IsFinite(a) -> a
      [] ~IsFinite(b) -> b
      [] Sign(a) = 0 -> b
      [] Sign(b) = 0 -> a
      [] a.rad = b.rad /\ a.e = b.e -> Fin3(RatAdd(a.c, b.c), a.rad, a.e)

Sub(a, b) == Add(a, Neg(b))

\* -1, 0, 1 for a < b, a = b, a > b; 2 when a comparison with NaN is false
\* both ways.  Finite numbers are compared when their signs differ, when they
\* differ in the coefficient only, or when they differ in the exponent only.
Cmp(a, b) ==
    CASE IsNaN(a) \/ IsNaN(b) -> 2
      [] ~IsFinite(a) \/ ~IsFinite(b) ->
            IF a.kind = b.kind THEN 0
            ELSE IF a.kind = "ninf" \/ b.kind = "inf" THEN -1 ELSE 1
      [] Sign(a) # Sign(b) -> IF Sign(a) < Sign(b) THEN -1 ELSE 1
      [] Sign(a) = 0 -> 0
      [] a.rad = b.rad /\ a.e = b.e -> RatSign(RatSub(a.c, b.c))
      [] a.rad = b.rad /\ a.c = b.c -> Sign(a) * RatSign(RatSub(b.e, a.e))

Lt(a, b) == Cmp(a, b) = -1
Le(a, b) == Cmp(a, b) \in {-1, 0}
Gt(a, b) == Cmp(a, b) = 1

\* Math.max(a, b), Math.min(a, b): NaN if either is NaN.
MathMax(a, b) == IF Cmp(a, b) = 2 THEN NaN ELSE IF Gt(b, a) THEN b ELSE a
MathMin(a, b) == IF Cmp(a, b) = 2 THEN NaN ELSE IF Lt(b, a) THEN b ELSE a

\* Math.sqrt(x), x rational: sqrt(p/q) = sqrt(p q) / q.
MathSqrt(x) ==
    CASE IsNaN(x) \/ Sign(x) < 0 -> NaN
      [] x.kind = "inf" -> PosInf
      [] Sign(x) = 0 -> Num(0)
      [] IsRational(x) -> Surd(Rat(1, x.c.d), x.c.n * x.c.d, RatInt(0))

\* Math.pow(0.5, x), x rational or infinite.
PowHalf(x) ==
    CASE IsNaN(x) -> NaN
      [] x.kind = "inf" -> Num(0)
      [] x.kind = "ninf" -> PosInf
      [] IsRational(x) -> [kind |-> "fin", c |-> RatInt(1), rad |-> 1, e |-> x.c]

\* Math.log(x) / Math.log(0.5), for x <= 0 or x a power 0.5^e.
LogBaseHalf(x) ==
    CASE IsNaN(x) \/ Sign(x) < 0 -> NaN
      [] x.kind = "inf" -> NegInf
      [] Sign(x) = 0 -> PosInf
      [] x.c = RatInt(1) /\ x.rad = 1 -> Fin(x.e)

(***************************************************************************)
(* calculator.js.                                                          *)
(***************************************************************************)
SIGNATURE_RESOLUTION == 40000

\* calculateAngularVelocity with the comparison of the guard flipped.
calculateAngularVelocity_FlippedGuard(transversal, distance) ==
    IF Le(Num(0), distance) THEN PosInf
    ELSE Div(transversal, distance)

\* Lines 14-17.
calculateAngularVelocity(transversal, distance) ==
    IF Le(distance, Num(0)) THEN PosInf
    ELSE Div(transversal, distance)

\* calculateTrackingComponent returning the ratio, not its square.
calculateTrackingComponent_Unsquared(angularVelocity, trackingSpeed, signatureRadius) ==
    IF Le(trackingSpeed, Num(0)) \/ Le(signatureRadius, Num(0)) THEN PosInf
    ELSE Div(Mul(angularVelocity, Num(SIGNATURE_RESOLUTION)),
             Mul(trackingSpeed, signatureRadius))

\* Lines 26-30.
calculateTrackingComponent(angularVelocity, trackingSpeed, signatureRadius) ==
    IF Le(trackingSpeed, Num(0)) \/ Le(signatureRadius, Num(0)) THEN PosInf
    ELSE LET ratio == Div(Mul(angularVelocity, Num(SIGNATURE_RESOLUTION)),
                          Mul(trackingSpeed, signatureRadius))
         IN  Mul(ratio, ratio)

\* Lines 39-44.
calculateRangeComponent(distance, optimalRange, falloff) ==
    IF Le(falloff, Num(0))
    THEN IF Gt(distance, optimalRange) THEN PosInf ELSE Num(0)
    ELSE LET excess == MathMax(Num(0), Sub(distance, optimalRange))
             ratio == Div(excess, falloff)
         IN  Mul(ratio, ratio)

\* Line 74: 0.97 * 0.5 + 0.03 * 3.
AverageDamageBlend == Add(Mul(Frac(97, 100), Frac(1, 2)), Mul(Frac(3, 100), Num(3)))

\* Lines 57-87.
calculateHitChance(p) ==
    LET angularVelocity == calculateAngularVelocity(p.transversal, p.distance)
        trackingComponent ==
            calculateTrackingComponent(angularVelocity, p.trackingSpeed, p.signatureRadius)
        rangeComponent == calculateRangeComponent(p.distance, p.optimalRange, p.falloff)
        exponent == Add(trackingComponent, rangeComponent)
        hitChance == PowHalf(exponent)
        expectedDamageModifier == Mul(hitChance, AverageDamageBlend)
    IN  [called |-> TRUE,
         hitChance |-> MathMin(Num(1), MathMax(Num(0), hitChance)),
         hitChancePercent |->
             MathMin(Num(100), MathMax(Num(0), Mul(hitChance, Num(100)))),
         angularVelocity |-> angularVelocity,
         angularVelocityMrad |-> Mul(angularVelocity, Num(1000)),
         trackingComponent |-> trackingComponent,
         rangeComponent |-> rangeComponent,
         isInOptimal |-> Le(p.distance, p.optimalRange),
         isInFalloff |-> Le(p.distance, Add(p.optimalRange, p.falloff)),
         expectedDamageModifier |-> expectedDamageModifier]

\* Lines 101-121.
calculateMaxTransversal(p) ==
    IF Le(p.targetHitChance, Num(0)) \/ Gt(p.targetHitChance, Num(1)) THEN Num(0)
    ELSE LET rangeComponent ==
                 calculateRangeComponent(p.distance, p.optimalRange, p.falloff)
             totalExponent == LogBaseHalf(p.targetHitChance)
             trackingExponent == Sub(totalExponent, rangeComponent)
         IN  IF Le(trackingExponent, Num(0)) THEN PosInf
             ELSE LET trackingRatio == MathSqrt(trackingExponent)
                      angularVelocity ==
                          Div(Mul(Mul(trackingRatio, p.trackingSpeed), p.signatureRadius),
                              Num(SIGNATURE_RESOLUTION))
                  IN  Mul(angularVelocity, p.distance)

(***************************************************************************)
(* Text.  A string is a sequence of one-character strings.                 *)
(***************************************************************************)
LowerCaseLetters ==
    <<"a", "b", "c", "d", "e", "f", "g", "h", "i", "j", "k", "l", "m", "n",
      "o", "p", "q", "r", "s", "t", "u", "v", "w", "x", "y", "z">>
UpperCaseLetters ==
    <<"A", "B", "C", "D", "E", "F", "G", "H", "I", "J", "K", "L", "M", "N",
      "O", "P", "Q", "R", "S", "T", "U", "V", "W", "X", "Y", "Z">>
DigitChars ==
    <<"0", "1", "2", "3", "4", "5", "6", "7", "8", "9">>

IndexIn(seq, c) == CHOOSE i \in 1..Len(seq) : seq[i] = c

DigitSet == {DigitChars[i] : i \in 1..Len(DigitChars)}
LetterSet ==
    {LowerCaseLetters[i] : i \in 1..26} \cup {UpperCaseLetters[i] : i \in 1..26}
IsDigit(c) == c \in DigitSet
IsLetter(c) == c \in LetterSet

\* The value of a decimal digit.
DigitValue == [c \in DigitSet |-> IndexIn(DigitChars, c) - 1]

\* String.prototype.toLowerCase on one character.
LowerCaseOf ==
    [c \in {UpperCaseLetters[i] : i \in 1..26} |->
        LowerCaseLetters[IndexIn(UpperCaseLetters, c)]]
LowerChar(c) == IF c \in DOMAIN LowerCaseOf THEN LowerCaseOf[c] ELSE c

toLowerCase(s) == [i \in 1..Len(s) |-> LowerChar(s[i])]

WhiteSpace == {" ", "\t", "\n", "\r", "\f"}
LineTerminators == {"\n", "\r"}

(***************************************************************************)
(* Regular expressions, as data: a pattern is a sequence of items, matched *)
(* by backtracking in the order the ECMAScript matcher tries them          *)
(* (leftmost start; a greedy quantifier longest first, a lazy one shortest *)
(* first; the alternatives of a group left to right).                      *)
(***************************************************************************)
Item(t, s, cls, g, alts) == [t |-> t, s |-> s, cls |-> cls, g |-> g, alts |-> alts]
Lit(s) == Item("lit", s, "", 0, <<>>)        \* literal text
LitI(s) == Item("liti", s, "", 0, <<>>)      \* literal text under the i flag
One(cls) == Item("one", <<>>, cls, 0, <<>>)  \* one character of a class
OneOrMore(cls) == Item("plus", <<>>, cls, 0, <<>>)         \* class+
ZeroOrMore(cls) == Item("star", <<>>, cls, 0, <<>>)         \* class*
ZeroOrMoreLazy(cls) == Item("lazy", <<>>, cls, 0, <<>>)     \* class*?
Open(g) == Item("open", <<>>, "", g, <<>>)   \* ( of capture group g
Close(g) == Item("close", <<>>, "", g, <<>>) \* ) of capture group g
Alt(alts) == Item("alt", <<>>, "", 0, alts)  \* (?:a|b|...)

InClass(c, cls) ==
    CASE cls = "digit" -> IsDigit(c)                       \* \d
      [] cls = "space" -> c \in WhiteSpace                 \* \s
      [] cls = "word" -> IsLetter(c) \/ IsDigit(c) \/ c = "_"   \* \w
      [] cls = "notgt" -> c # ">"                          \* [^>]
      [] cls = "notlt" -> c # "<"                          \* [^<]
      [] cls = "stamp" -> IsDigit(c) \/ c \in {".", ":"} \/ c \in WhiteSpace  \* [\d.:\s]
      [] cls = "any" -> c \notin LineTerminators           \* .

MaxGroups == 6
NoCaptures == [g \in 1..MaxGroups |-> [from |-> 0, to |-> 0]]
NoMatch == [ok |-> FALSE, start |-> 0, end |-> 0, caps |-> NoCaptures]

\* Whether lit occurs in s at position i.
LitAt(s, i, lit, ignoreCase) ==
    /\ i + Len(lit) - 1 <= Len(s)
    /\ \A j \in 1..Len(lit) :
          IF ignoreCase THEN LowerChar(s[i + j - 1]) = LowerChar(lit[j])
          ELSE s[i + j - 1] = lit[j]

SetMin(S) == CHOOSE x \in S : \A y \in S : x <= y
SetMax(S) == CHOOSE x \in S : \A y \in S : y <= x

\* The number of consecutive characters of class cls in s from position i.
Run(s, i, cls) ==
    LET stops == {j \in i..Len(s) : ~InClass(s[j], cls)}
    IN  IF stops = {} THEN Len(s) - i + 1 ELSE SetMin(stops) - i

RECURSIVE MatchFrom(_, _, _, _, _)
RECURSIVE Greedy(_, _, _, _, _, _, _)
RECURSIVE Lazy(_, _, _, _, _, _)
RECURSIVE Alternatives(_, _, _, _, _, _)

\* Items k.. of re matched at position i of s.
MatchFrom(re, k, s, i, caps) ==
    IF k > Len(re) THEN [ok |-> TRUE, start |-> 0, end |-> i, caps |-> caps]
    ELSE LET it == re[k]
         IN  CASE it.t \in {"lit", "liti"} ->
                    IF LitAt(s, i, it.s, it.t = "liti")
                    THEN MatchFrom(re, k + 1, s, i + Len(it.s), caps)
                    ELSE NoMatch
               [] it.t = "one" ->
                    IF i <= Len(s) /\ InClass(s[i], it.cls)
                    THEN MatchFrom(re, k + 1, s, i + 1, caps)
                    ELSE NoMatch
               [] it.t = "plus" -> Greedy(re, k, s, i, 1, Run(s, i, it.cls), caps)
               [] it.t = "star" -> Greedy(re, k, s, i, 0, Run(s, i, it.cls), caps)
               [] it.t = "lazy" -> Lazy(re, k, s, i, Run(s, i, it.cls), caps)
               [] it.t = "open" ->
                    MatchFrom(re, k + 1, s, i, [caps EXCEPT ![it.g].from = i])
               [] it.t = "close" ->
                    MatchFrom(re, k + 1, s, i, [caps EXCEPT ![it.g].to = i])
               [] it.t = "alt" -> Alternatives(re, k, s, i, caps, 1)

\* Item k takes the largest number of characters in min..max after which the
\* rest of re matches (longest first).
Greedy(re, k, s, i, min, max, caps) ==
    LET fits == {t \in {[n |-> n, m |-> MatchFrom(re, k + 1, s, i + n, caps)] :
                          n \in min..max} : t.m.ok}
    IN  IF fits = {} THEN NoMatch
        ELSE (CHOOSE t \in fits : \A u \in fits : u.n <= t.n).m

\* Item k takes the smallest number of characters in 0..max after which the
\* rest of re matches (shortest first).
Lazy(re, k, s, i, max, caps) ==
    LET fits == {t \in {[n |-> n, m |-> MatchFrom(re, k + 1, s, i + n, caps)] :
                          n \in 0..max} : t.m.ok}
    IN  IF fits = {} THEN NoMatch
        ELSE (CHOOSE t \in fits : \A u \in fits : t.n <= u.n).m

\* Alternative a of item k, then a + 1, ...; each is followed by the rest of re.
Alternatives(re, k, s, i, caps, a) ==
    IF a > Len(re[k].alts) THEN NoMatch
    ELSE LET r == MatchFrom(re[k].alts[a] \o SubSeq(re, k + 1, Len(re)), 1, s, i, caps)
         IN  IF r.ok THEN r ELSE Alternatives(re, k, s, i, caps, a + 1)

\* The leftmost position of s at which re matches.
Search(re, s) ==
    LET fits == {t \in {[n |-> n, m |-> MatchFrom(re, 1, s, n, NoCaptures)] :
                          n \in 1..(Len(s) + 1)} : t.m.ok}
    IN  IF fits = {} THEN NoMatch
        ELSE LET first == CHOOSE t \in fits : \A u \in fits : t.n <= u.n
             IN  [first.m EXCEPT !.start = first.n]

\* s.match(re): the leftmost match, or NoMatch (null).
Match(s, re) == Search(re, s)

\* The text of capture group g of match m; Undefined when g took no part.
Undefined == <<"undefined">>
Group(s, m, g) ==
    IF m.caps[g].from = 0 THEN Undefined
    ELSE SubSeq(s, m.caps[g].from, m.caps[g].to - 1)

\* /\[\s*(\d{4})\.(\d{2})\.(\d{2})\s+(\d{2}):(\d{2}):(\d{2})\s*\]/
TIMESTAMP_REGEX ==
    <<Lit(<<"[">>), ZeroOrMore("space"), Open(1), One("digit"), One("digit"),
      One("digit"), One("digit"), Close(1), Lit(<<".">>), Open(2),
      One("digit"), One("digit"), Close(2), Lit(<<".">>), Open(3),
      One("digit"), One("digit"), Close(3), OneOrMore("space"), Open(4),
      One("digit"), One("digit"), Close(4), Lit(<<":">>), Open(5),
      One("digit"), One("digit"), Close(5), Lit(<<":">>), Open(6),
      One("digit"), One("digit"), Close(6), ZeroOrMore("space"), Lit(<<"]">>)>>

\* /\[\s*[\d.:\s]+\]\s*\((\w+)\)\s*(.*)/
LOG_LINE_REGEX ==
    <<Lit(<<"[">>), ZeroOrMore("space"), OneOrMore("stamp"), Lit(<<"]">>), ZeroOrMore("space"),
      Lit(<<"(">>), Open(1), OneOrMore("word"), Close(1), Lit(<<")">>),
      ZeroOrMore("space"), Open(2), ZeroOrMore("any"), Close(2)>>

\* /<color=[^>]+><b>(\d+)<\/b>.*?<color=[^>]+><b>(\d+)<\/b>.*?to\s+<b><color=[^>]+>([^<]+)<\/color><\/b>/i
DAMAGE_DEALT_REGEX ==
    <<LitI(<<"<", "c", "o", "l", "o", "r", "=">>), OneOrMore("notgt"),
      LitI(<<">", "<", "b", ">">>), Open(1), OneOrMore("digit"), Close(1),
      LitI(<<"<", "/", "b", ">">>), ZeroOrMoreLazy("any"),
      LitI(<<"<", "c", "o", "l", "o", "r", "=">>), OneOrMore("notgt"),
      LitI(<<">", "<", "b", ">">>), Open(2), OneOrMore("digit"), Close(2),
      LitI(<<"<", "/", "b", ">">>), ZeroOrMoreLazy("any"), LitI(<<"t", "o">>),
      OneOrMore("space"),
      LitI(<<"<", "b", ">", "<", "c", "o", "l", "o", "r", "=">>),
      OneOrMore("notgt"), LitI(<<">">>), Open(3), OneOrMore("notlt"), Close(3),
      LitI(<<"<", "/", "c", "o", "l", "o", "r", ">", "<", "/", "b", ">">>)>>

\* /<color=[^>]+><b>(\d+)<\/b>.*?from\s+<b><color=[^>]+>([^<]+)<\/color><\/b>/i
DAMAGE_RECEIVED_REGEX ==
    <<LitI(<<"<", "c", "o", "l", "o", "r", "=">>), OneOrMore("notgt"),
      LitI(<<">", "<", "b", ">">>), Open(1), OneOrMore("digit"), Close(1),
      LitI(<<"<", "/", "b", ">">>), ZeroOrMoreLazy("any"),
      LitI(<<"f", "r", "o", "m">>), OneOrMore("space"),
      LitI(<<"<", "b", ">", "<", "c", "o", "l", "o", "r", "=">>),
      OneOrMore("notgt"), LitI(<<">">>), Open(2), OneOrMore("notlt"), Close(2),
      LitI(<<"<", "/", "c", "o", "l", "o", "r", ">", "<", "/", "b", ">">>)>>

\* /misses\s+(?:you|<b><color=[^>]+>([^<]+)<\/color><\/b>)\s+completely/i
MISS_REGEX ==
    <<LitI(<<"m", "i", "s", "s", "e", "s">>), OneOrMore("space"),
      Alt(<<<<LitI(<<"y", "o", "u">>)>>,
            <<LitI(<<"<", "b", ">", "<", "c", "o", "l", "o", "r", "=">>),
              OneOrMore("notgt"), LitI(<<">">>), Open(1), OneOrMore("notlt"), Close(1),
              LitI(<<"<", "/", "c", "o", "l", "o", "r", ">", "<", "/", "b", ">">>)>>>>),
      OneOrMore("space"), LitI(<<"c", "o", "m", "p", "l", "e", "t", "e", "l", "y">>)>>

\* /-\s+<color=[^>]+><font[^>]*>([^<]+)<\/font>/i
WEAPON_REGEX ==
    <<LitI(<<"-">>), OneOrMore("space"),
      LitI(<<"<", "c", "o", "l", "o", "r", "=">>), OneOrMore("notgt"),
      LitI(<<">", "<", "f", "o", "n", "t">>), ZeroOrMore("notgt"), LitI(<<">">>),
      Open(1), OneOrMore("notlt"), Close(1),
      LitI(<<"<", "/", "f", "o", "n", "t", ">">>)>>

\* /(wrecks|penetrates|hits|grazes|glances|smashes)/i
HIT_QUALITY_REGEX ==
    <<Open(1),
      Alt(<<<<LitI(<<"w", "r", "e", "c", "k", "s">>)>>,
            <<LitI(<<"p", "e", "n", "e", "t", "r", "a", "t", "e", "s">>)>>,
            <<LitI(<<"h", "i", "t", "s">>)>>,
            <<LitI(<<"g", "r", "a", "z", "e", "s">>)>>,
            <<LitI(<<"g", "l", "a", "n", "c", "e", "s">>)>>,
            <<LitI(<<"s", "m", "a", "s", "h", "e", "s">>)>>>>),
      Close(1)>>

\* /<[^>]+>/ (the tag pattern of stripTags)
TAG_REGEX ==
    <<Lit(<<"<">>), OneOrMore("notgt"), Lit(<<">">>)>>

(***************************************************************************)
(* logParser.js: line parser.                                              *)
(***************************************************************************)
\* parseInt on a string of decimal digits.
RECURSIVE parseInt(_)
parseInt(s) ==
    IF s = <<>> THEN 0
    ELSE 10 * parseInt(SubSeq(s, 1, Len(s) - 1)) + DigitValue[s[Len(s)]]

\* String.prototype.trim.
RECURSIVE trim(_)
trim(s) ==
    IF s = <<>> THEN s
    ELSE IF Head(s) \in WhiteSpace THEN trim(Tail(s))
    ELSE IF s[Len(s)] \in WhiteSpace THEN trim(SubSeq(s, 1, Len(s) - 1))
    ELSE s

\* str.replace(/<[^>]+>/g, ''): every tag removed, left to right.
RECURSIVE RemoveTags(_)
RemoveTags(s) ==
    LET m == Match(s, TAG_REGEX)
    IN  IF m.ok
        THEN SubSeq(s, 1, m.start - 1) \o RemoveTags(SubSeq(s, m.end, Len(s)))
        ELSE s

\* Lines 45-47.
stripTags(str) == trim(RemoveTags(str))

\* Days from 1970-01-01 to year-month-day of the proleptic Gregorian calendar.
DaysFromCivil(year, month, day) ==
    LET y == IF month <= 2 THEN year - 1 ELSE year
        era == y \div 400
        yoe == y - era * 400
        mp == (month + 9) % 12
        doy == (153 * mp + 2) \div 5 + day - 1
        doe == yoe * 365 + yoe \div 4 - yoe \div 100 + doy
    IN  era * 146097 + doe - 719468

\* The year whose 1 January 00:00:00 is time 0 of the model's Dates.
EpochYear == 2024

\* new Date(year, monthIndex, day, hour, minute, second): its time value, in
\* milliseconds from the model's epoch (local time, no daylight saving; the
\* fields are in their calendar ranges).
NewDate(year, monthIndex, day, hour, minute, second) ==
    ((DaysFromCivil(year, monthIndex + 1, day) - DaysFromCivil(EpochYear, 1, 1)) * 86400
        + hour * 3600 + minute * 60 + second) * 1000

\* Lines 25-38.
parseTimestamp(line) ==
    LET match == Match(line, TIMESTAMP_REGEX)
    IN  IF ~match.ok THEN Null
        ELSE NewDate(parseInt(Group(line, match, 1)),
                     parseInt(Group(line, match, 2)) - 1,
                     parseInt(Group(line, match, 3)),
                     parseInt(Group(line, match, 4)),
                     parseInt(Group(line, match, 5)),
                     parseInt(Group(line, match, 6)))

\* The result of parseCombatLine: null, or an event.  A field the parser did
\* not set is Undefined (damage: Null).
NullEvent ==
    [isNull |-> TRUE, timestamp |-> Null, raw |-> <<>>, type |-> "null",
     damage |-> Null, target |-> Undefined, source |-> Undefined,
     weapon |-> Undefined, hitQuality |-> Undefined]

\* Lines 64-68.
NewEvent(timestamp, line) ==
    [isNull |-> FALSE, timestamp |-> timestamp, raw |-> line, type |-> "unknown",
     damage |-> Null, target |-> Undefined, source |-> Undefined,
     weapon |-> Undefined, hitQuality |-> Undefined]

\* Lines 71-76.
CheckDamageDealt(event, content) ==
    LET damageDealt == Match(content, DAMAGE_DEALT_REGEX)
    IN  IF damageDealt.ok
        THEN [event EXCEPT !.type = "damage_dealt",
                           !.damage = parseInt(Group(content, damageDealt, 1)),
                           !.target = stripTags(Group(content, damageDealt, 3))]
        ELSE event

\* Lines 79-84.
CheckDamageReceived(event, content) ==
    LET damageReceived == Match(content, DAMAGE_RECEIVED_REGEX)
    IN  IF damageReceived.ok
        THEN [event EXCEPT !.type = "damage_received",
                           !.damage = parseInt(Group(content, damageReceived, 1)),
                           !.source = stripTags(Group(content, damageReceived, 2))]
        ELSE event

\* Lines 87-91.
CheckMiss(event, content) ==
    LET miss == Match(content, MISS_REGEX)
    IN  IF miss.ok
        THEN [event EXCEPT !.type = "miss",
                           !.target = IF Group(content, miss, 1) # Undefined
                                      THEN stripTags(Group(content, miss, 1))
                                      ELSE <<"y", "o", "u">>]
        ELSE event

\* Lines 94-97.
ExtractWeapon(event, content) ==
    LET weapon == Match(content, WEAPON_REGEX)
    IN  IF weapon.ok
        THEN [event EXCEPT !.weapon = stripTags(Group(content, weapon, 1))]
        ELSE event

\* Lines 100-103.
ExtractHitQuality(event, content) ==
    LET hitQuality == Match(content, HIT_QUALITY_REGEX)
    IN  IF hitQuality.ok
        THEN [event EXCEPT !.hitQuality = toLowerCase(Group(content, hitQuality, 1))]
        ELSE event

\* The three checks as an else-if chain: the first pattern that matches wins.
Classify_FirstMatchWins(event, content) ==
    IF Match(content, DAMAGE_DEALT_REGEX).ok THEN CheckDamageDealt(event, content)
    ELSE IF Match(content, DAMAGE_RECEIVED_REGEX).ok
         THEN CheckDamageReceived(event, content)
    ELSE CheckMiss(event, content)

\* Lines 70-91: the three classification checks, each overwriting the last.
Classify(event, content) ==
    CheckMiss(CheckDamageReceived(CheckDamageDealt(event, content), content), content)

COMBAT == <<"c", "o", "m", "b", "a", "t">>

\* Lines 54-106.
parseCombatLine(line) ==
    LET timestamp == parseTimestamp(line)
        lineMatch == Match(line, LOG_LINE_REGEX)
    IN  IF ~lineMatch.ok THEN NullEvent
        ELSE LET type == Group(line, lineMatch, 1)
                 content == Group(line, lineMatch, 2)
             IN  IF type # COMBAT THEN NullEvent
                 ELSE ExtractHitQuality(
                          ExtractWeapon(
                              Classify(NewEvent(timestamp, line), content),
                              content),
                          content)

\* Line 139: whether the loop keeps what parseCombatLine returned.
KeepEvent_AnyEvent(event) == ~event.isNull

KeepEvent(event) == ~event.isNull /\ event.type # "unknown"

\* content.split('\n'): the pieces of s between its line feeds; one more piece
\* than there are line feeds.
RECURSIVE split(_)
split(s) ==
    LET feeds == {i \in 1..Len(s) : s[i] = "\n"}
    IN  IF feeds = {} THEN <<s>>
        ELSE <<SubSeq(s, 1, SetMin(feeds) - 1)>>
                 \o split(SubSeq(s, SetMin(feeds) + 1, Len(s)))

(***************************************************************************)
(* The log texts the model parses.  A log is at most MaxLines lines of     *)
(* LineDomain joined by line feeds.  The combat lines carry every          *)
(* combination of the damage-dealt, damage-received and miss texts.        *)
(***************************************************************************)
MaxLines == 2

\* '[ 2024.01.15 20:30:00 ] (combat) ': the timestamp and the (combat) marker
Stamp ==
    <<"[", " ", "2", "0", "2", "4", ".", "0", "1", ".", "1", "5", " ", "2",
      "0", ":", "3", "0", ":", "0", "0", " ", "]", " ", "(", "c", "o", "m",
      "b", "a", "t", ")", " ">>

\* <color=0xff><b>50</b> <color=0x77><b>12</b> to <b><color=0xaa>Some Target</color></b>
DealtText ==
    <<"<", "c", "o", "l", "o", "r", "=", "0", "x", "f", "f", ">", "<", "b",
      ">", "5", "0", "<", "/", "b", ">", " ", "<", "c", "o", "l", "o", "r",
      "=", "0", "x", "7", "7", ">", "<", "b", ">", "1", "2", "<", "/", "b",
      ">", " ", "t", "o", " ", "<", "b", ">", "<", "c", "o", "l", "o", "r",
      "=", "0", "x", "a", "a", ">", "S", "o", "m", "e", " ", "T", "a", "r",
      "g", "e", "t", "<", "/", "c", "o", "l", "o", "r", ">", "<", "/", "b",
      ">">>

\* <color=0xcc><b>31</b> from <b><color=0xaa>Rat</color></b>
ReceivedText ==
    <<"<", "c", "o", "l", "o", "r", "=", "0", "x", "c", "c", ">", "<", "b",
      ">", "3", "1", "<", "/", "b", ">", " ", "f", "r", "o", "m", " ", "<",
      "b", ">", "<", "c", "o", "l", "o", "r", "=", "0", "x", "a", "a", ">",
      "R", "a", "t", "<", "/", "c", "o", "l", "o", "r", ">", "<", "/", "b",
      ">">>

\* Gun misses <b><color=0xaa>Foe</color></b> completely
MissText ==
    <<"G", "u", "n", " ", "m", "i", "s", "s", "e", "s", " ", "<", "b", ">",
      "<", "c", "o", "l", "o", "r", "=", "0", "x", "a", "a", ">", "F", "o",
      "e", "<", "/", "c", "o", "l", "o", "r", ">", "<", "/", "b", ">", " ",
      "c", "o", "m", "p", "l", "e", "t", "e", "l", "y">>

\* Rat misses you completely
MissYouText ==
    <<"R", "a", "t", " ", "m", "i", "s", "s", "e", "s", " ", "y", "o", "u",
      " ", "c", "o", "m", "p", "l", "e", "t", "e", "l", "y">>

\* ' - <color=0x77><font size=10>Railgun</font>'
WeaponText ==
    <<" ", "-", " ", "<", "c", "o", "l", "o", "r", "=", "0", "x", "7", "7",
      ">", "<", "f", "o", "n", "t", " ", "s", "i", "z", "e", "=", "1", "0",
      ">", "R", "a", "i", "l", "g", "u", "n", "<", "/", "f", "o", "n", "t",
      ">">>

\* ' - Hits'
HitsText ==
    <<" ", "-", " ", "H", "i", "t", "s">>

\* Drone engages Foe
OtherText ==
    <<"D", "r", "o", "n", "e", " ", "e", "n", "g", "a", "g", "e", "s", " ",
      "F", "o", "e">>

\* RAT MISSES YOU COMPLETELY
ShoutedMissText ==
    <<"R", "A", "T", " ", "M", "I", "S", "S", "E", "S", " ", "Y", "O", "U",
      " ", "C", "O", "M", "P", "L", "E", "T", "E", "L", "Y">>

\* '[ 2024.01.15 20:30:04 ] (notify) '
NotifyStamp ==
    <<"[", " ", "2", "0", "2", "4", ".", "0", "1", ".", "1", "5", " ", "2",
      "0", ":", "3", "0", ":", "0", "4", " ", "]", " ", "(", "n", "o", "t",
      "i", "f", "y", ")", " ">>

\* '[ 20:30:09 ] (combat) ': no date, so TIMESTAMP_REGEX fails
ClockStamp ==
    <<"[", " ", "2", "0", ":", "3", "0", ":", "0", "9", " ", "]", " ", "(",
      "c", "o", "m", "b", "a", "t", ")", " ">>

\* [ 2024.01.15 20:30:00 ] (combat) 50 <b>Wrecking</b> damage to <b><color=#FF0000>Some Target</color></b> - <color=#FFFFFF><font size=12>Railgun</font>
ExampleLine ==
    <<"[", " ", "2", "0", "2", "4", ".", "0", "1", ".", "1", "5", " ", "2",
      "0", ":", "3", "0", ":", "0", "0", " ", "]", " ", "(", "c", "o", "m",
      "b", "a", "t", ")", " ", "5", "0", " ", "<", "b", ">", "W", "r", "e",
      "c", "k", "i", "n", "g", "<", "/", "b", ">", " ", "d", "a", "m", "a",
      "g", "e", " ", "t", "o", " ", "<", "b", ">", "<", "c", "o", "l", "o",
      "r", "=", "#", "F", "F", "0", "0", "0", "0", ">", "S", "o", "m", "e",
      " ", "T", "a", "r", "g", "e", "t", "<", "/", "c", "o", "l", "o", "r",
      ">", "<", "/", "b", ">", " ", "-", " ", "<", "c", "o", "l", "o", "r",
      "=", "#", "F", "F", "F", "F", "F", "F", ">", "<", "f", "o", "n", "t",
      " ", "s", "i", "z", "e", "=", "1", "2", ">", "R", "a", "i", "l", "g",
      "u", "n", "<", "/", "f", "o", "n", "t", ">">>

\* Some Target
SomeTarget ==
    <<"S", "o", "m", "e", " ", "T", "a", "r", "g", "e", "t">>

\* Railgun
Railgun ==
    <<"R", "a", "i", "l", "g", "u", "n">>

Space == <<" ">>

LineDomain ==
    { <<>>,
      MissYouText,
      NotifyStamp \o MissYouText,
      ExampleLine,
      Stamp \o OtherText,
      Stamp \o DealtText \o WeaponText \o HitsText,
      Stamp \o ReceivedText,
      Stamp \o MissText \o WeaponText,
      Stamp \o MissYouText \o <<"\r">>,
      Stamp \o ShoutedMissText,
      Stamp \o DealtText \o Space \o ReceivedText,
      Stamp \o ReceivedText \o Space \o DealtText,
      Stamp \o DealtText \o Space \o MissText,
      Stamp \o ReceivedText \o Space \o MissYouText,
      Stamp \o DealtText \o Space \o ReceivedText \o Space \o MissText,
      ClockStamp \o ReceivedText \o HitsText }

\* The lines joined by line feeds, as a log file holds them.
RECURSIVE Join(_)
Join(ls) ==
    IF ls = <<>> THEN <<>>
    ELSE IF Len(ls) = 1 THEN ls[1]
    ELSE ls[1] \o <<"\n">> \o Join(Tail(ls))

ContentDomain == {Join(ls) : ls \in SeqsUpTo(LineDomain, MaxLines)}

\* parseCombatLine on each line of the model, computed once.
ParsedLines == {[line |-> l, event |-> parseCombatLine(l)] : l \in LineDomain}
ParsedLine(line) == (CHOOSE p \in ParsedLines : p.line = line).event

(***************************************************************************)
(* The requests the model makes of the calculator.  A target hit chance in *)
(* (0, 1] is a power 0.5^e.                                                *)
(***************************************************************************)
Transversals == {Num(0), Frac(1, 8), Num(50), Frac(-1, 8)}
Distances == {Num(-1000), Num(0), Num(5000), Num(13000), Num(15000)}
TrackingSpeeds == {Frac(1, 100), Num(0), Frac(-1, 100)}
SignatureRadii == {Num(100), Num(40), Num(0)}
OptimalRanges == {Num(10000)}
Falloffs == {Num(5000), Num(0)}
TargetHitChances ==
    {Num(0), Frac(-1, 2), Frac(3, 2),
     PowHalf(Num(0)), PowHalf(Frac(1, 2)), PowHalf(Num(1)), PowHalf(Num(2))}

NotCalled == [called |-> FALSE]

CalcIdle ==
    /\ params = [transversal |-> Num(0), distance |-> Num(0), trackingSpeed |-> Num(0),
                 signatureRadius |-> Num(0), optimalRange |-> Num(0),
                 falloff |-> Num(0), targetHitChance |-> Num(0)]
    /\ maxTransversal = NaN
    /\ hit = NotCalled
    /\ calcPc = "idle"

StatsIdle ==
    /\ events = <<>>
    /\ idx = 0
    /\ stats = InitialStats
    /\ statsPc = "idle"

(***************************************************************************)
(* The SSO handlers (sso.js 201-294) on one session.  A session or query   *)
(* property that is not set reads as undefined: NoValue.  The identity     *)
(* provider is outside the program: whether the token exchange and the     *)
(* token verification succeed is its choice.                               *)
(***************************************************************************)
NoValue == "<undefined>"

\* What generateRandomString can return for the state and for the verifier.
StateValues == {"stateA", "stateB"}
Verifiers == {"verifierA", "verifierB"}

\* The query strings of the callback requests: code and state each present
\* or absent.
Queries == [code : {"code", NoValue}, state : StateValues \cup {NoValue}]

\* A session on which no handler has stored anything.
NewSession ==
    [ssoState |-> NoValue, ssoVerifier |-> NoValue, character |-> NoValue,
     accessToken |-> NoValue, refreshToken |-> NoValue]

\* Line 235, negated: the state of the callback passes the check.
StateAccepted(state, sess) == ~(state # sess.ssoState)

SsoIdle ==
    /\ session = NewSession
    /\ query = [code |-> NoValue, state |-> NoValue]
    /\ response = "none"
    /\ ssoPc = "idle"

ParserIdle ==
    /\ logContent = <<>>
    /\ lines = <<>>
    /\ lineIdx = 0
    /\ parsedEvents = <<>>
    /\ lastEvent = NullEvent
    /\ parserPc = "idle"

(***************************************************************************)
(* The specifications.                                                     *)
(***************************************************************************)
InitStats ==
    /\ component = "stats"
    /\ events \in SeqsUpTo(EventDomain, MaxEvents)
    /\ idx = 0
    /\ stats = InitialStats
    /\ statsPc = "loop"
    /\ CalcIdle
    /\ ParserIdle
    /\ SsoIdle

\* The for-loop body on the next event.
CalcStatsLoop ==
    /\ component = "stats"
    /\ statsPc = "loop"
    /\ idx < Len(events)
    /\ stats' = ProcessEvent(stats, events[idx + 1])
    /\ idx' = idx + 1
    /\ UNCHANGED <<component, ssoVars, events, statsPc, calcVars, parserVars>>

\* The loop is exhausted: hitRate, dps, return.
CalcStatsFinish ==
    /\ component = "stats"
    /\ statsPc = "loop"
    /\ idx = Len(events)
    /\ stats' = Finalize(stats)
    /\ statsPc' = "done"
    /\ UNCHANGED <<component, ssoVars, events, idx, calcVars, parserVars>>

NextStats == CalcStatsLoop \/ CalcStatsFinish

SpecStats == InitStats /\ [][NextStats]_vars

InitCalc ==
    /\ component = "calc"
    /\ params \in [transversal : Transversals, distance : Distances,
                   trackingSpeed : TrackingSpeeds, signatureRadius : SignatureRadii,
                   optimalRange : OptimalRanges, falloff : Falloffs,
                   targetHitChance : TargetHitChances]
    /\ maxTransversal = NaN
    /\ hit = NotCalled
    /\ calcPc = "start"
    /\ StatsIdle
    /\ ParserIdle
    /\ SsoIdle

\* POST /api/calculate: calculateHitChance on the request's parameters.
HitChanceCall ==
    /\ component = "calc"
    /\ calcPc = "start"
    /\ hit' = calculateHitChance(params)
    /\ calcPc' = "forward"
    /\ UNCHANGED <<component, ssoVars, statsVars, parserVars, params, maxTransversal>>

\* POST /api/max-transversal: calculateMaxTransversal on the request's parameters.
MaxTransversalCall ==
    /\ component = "calc"
    /\ calcPc = "start"
    /\ maxTransversal' = calculateMaxTransversal(params)
    /\ calcPc' = "inverse"
    /\ UNCHANGED <<component, ssoVars, statsVars, parserVars, params, hit>>

\* calculateHitChance with the transversal calculateMaxTransversal returned
\* and the same other parameters.
RoundTripCall ==
    /\ component = "calc"
    /\ calcPc = "inverse"
    /\ hit' = calculateHitChance([params EXCEPT !.transversal = maxTransversal])
    /\ calcPc' = "roundtrip"
    /\ UNCHANGED <<component, ssoVars, statsVars, parserVars, params, maxTransversal>>

NextCalc == HitChanceCall \/ MaxTransversalCall \/ RoundTripCall

SpecCalc == InitCalc /\ [][NextCalc]_vars

\* parseLogContent, entered: the text split, nothing parsed yet (lines 134-135).
InitParser ==
    /\ component = "parser"
    /\ logContent \in ContentDomain
    /\ lines = split(logContent)
    /\ lineIdx = 0
    /\ parsedEvents = <<>>
    /\ lastEvent = NullEvent
    /\ parserPc = "loop"
    /\ StatsIdle
    /\ CalcIdle
    /\ SsoIdle

\* The for-loop body on the next line (lines 137-142).
ParseLogContentLoop ==
    /\ component = "parser"
    /\ parserPc = "loop"
    /\ lineIdx < Len(lines)
    /\ LET event == ParsedLine(lines[lineIdx + 1])
       IN  /\ lastEvent' = event
           /\ parsedEvents' = IF KeepEvent(event) THEN Append(parsedEvents, event)
                              ELSE parsedEvents
    /\ lineIdx' = lineIdx + 1
    /\ UNCHANGED <<component, ssoVars, logContent, lines, parserPc, statsVars, calcVars>>

\* The loop is over: return events (line 144).
ParseLogContentReturn ==
    /\ component = "parser"
    /\ parserPc = "loop"
    /\ lineIdx = Len(lines)
    /\ parserPc' = "done"
    /\ UNCHANGED <<component, logContent, lines, lineIdx, parsedEvents, lastEvent,
                   statsVars, calcVars, ssoVars>>

NextParser == ParseLogContentLoop \/ ParseLogContentReturn

SpecParser == InitParser /\ [][NextParser]_vars

\* A new session, no request made yet.
InitSso ==
    /\ component = "sso"
    /\ session = NewSession
    /\ query = [code |-> NoValue, state |-> NoValue]
    /\ response = "none"
    /\ ssoPc = "ready"
    /\ StatsIdle
    /\ CalcIdle
    /\ ParserIdle

\* GET /auth/login (lines 208-225).
SsoLogin ==
    /\ component = "sso"
    /\ ssoPc = "ready"
    /\ \E state \in StateValues, verifier \in Verifiers :
          session' = [session EXCEPT !.ssoState = state, !.ssoVerifier = verifier]
    /\ response' = "redirect to the provider"
    /\ UNCHANGED <<component, query, ssoPc, statsVars, calcVars, parserVars>>

\* GET /auth/callback up to the await of exchangeCode (lines 230-245).
SsoCallbackVerifyState ==
    /\ component = "sso"
    /\ ssoPc = "ready"
    /\ \E q \in Queries :
          /\ query' = q
          /\ IF StateAccepted(q.state, session)
             THEN ssoPc' = "exchange" /\ response' = "pending"
             ELSE ssoPc' = "ready" /\ response' = "Invalid state parameter"
    /\ UNCHANGED <<component, session, statsVars, calcVars, parserVars>>

\* exchangeCode or verifyToken throws: next(err) (lines 107-110, 154, 260-262).
SsoCallbackFails ==
    /\ component = "sso"
    /\ ssoPc = "exchange"
    /\ ssoPc' = "ready"
    /\ response' = "token error"
    /\ UNCHANGED <<component, session, query, statsVars, calcVars, parserVars>>

\* The tokens arrive and verify (lines 248-259).
SsoCallbackSucceeds ==
    /\ component = "sso"
    /\ ssoPc = "exchange"
    /\ session' = [session EXCEPT !.character = "pilot",
                                  !.accessToken = "access token",
                                  !.refreshToken = "refresh token",
                                  !.ssoState = NoValue,
                                  !.ssoVerifier = NoValue]
    /\ ssoPc' = "ready"
    /\ response' = "signed in"
    /\ UNCHANGED <<component, query, statsVars, calcVars, parserVars>>

\* GET /auth/logout (lines 268-282): the session is destroyed, whatever the
\* revocation did; the next request starts a new one.
SsoLogout ==
    /\ component = "sso"
    /\ ssoPc = "ready"
    /\ session' = NewSession
    /\ response' = "signed out"
    /\ UNCHANGED <<component, query, ssoPc, statsVars, calcVars, parserVars>>

NextSso ==
    \/ SsoLogin
    \/ SsoCallbackVerifyState
    \/ SsoCallbackFails
    \/ SsoCallbackSucceeds
    \/ SsoLogout

SpecSso == InitSso /\ [][NextSso]_vars

Init == InitStats \/ InitParser \/ InitCalc \/ InitSso
Next == NextStats \/ NextParser \/ NextCalc \/ NextSso
Spec == Init /\ [][Next]_vars

(***************************************************************************)
(* Reference quantities, computed from the argument alone.                 *)
(***************************************************************************)
OfType(evs, type) == SelectSeq(evs, LAMBDA e : e.type = type)
DealtTo(evs, target) ==
    SelectSeq(evs, LAMBDA e : e.type = "damage_dealt" /\ e.target = target)

RECURSIVE TotalDamage(_)
TotalDamage(evs) ==
    IF evs = <<>> THEN 0 ELSE Head(evs).damage + TotalDamage(Tail(evs))

Returned == component = "stats" /\ statsPc = "done"

(***************************************************************************)
(* C1: in the returned stats, shotsHit is the number of damage_dealt       *)
(* events, shotsMissed the number of miss events (so their sum is the      *)
(* number of attack events), and hitRate is shotsHit / (shotsHit +         *)
(* shotsMissed) * 100, or 0 when there were no shots.                      *)
(***************************************************************************)
C1_ShotCountsAndHitRate ==
    Returned =>
        LET hits == Len(OfType(events, "damage_dealt"))
            misses == Len(OfType(events, "miss"))
        IN  /\ stats.shotsHit = hits
            /\ stats.shotsMissed = misses
            /\ stats.shotsHit + stats.shotsMissed =
                 Cardinality({i \in 1..Len(events) :
                                events[i].type \in {"damage_dealt", "miss"}})
            /\ IF hits + misses = 0
               THEN stats.hitRate = RatInt(0)
               ELSE /\ stats.hitRate.d > 0
                    /\ stats.hitRate.n * (hits + misses) = 100 * hits * stats.hitRate.d

\* A returned result with hits and misses among other events.
C1_Witness ==
    /\ Returned
    /\ stats.shotsHit = 1
    /\ stats.shotsMissed = 2
    /\ Len(events) = 3
    /\ stats.hitRate = Rat(100, 3)

(***************************************************************************)
(* C2 as claimed: dps is totalDamageDealt / spanSeconds when both          *)
(* endpoints are set and end - start > 0, and is undefined in every other  *)
(* case, equal endpoints included.                                         *)
(***************************************************************************)
C2_DpsUndefinedUnlessPositiveSpan ==
    Returned =>
        IF /\ stats.timespan.start # Null
           /\ stats.timespan.end # Null
           /\ stats.timespan.end - stats.timespan.start > 0
        THEN /\ stats.dps.defined
             /\ stats.dps.n * (stats.timespan.end - stats.timespan.start)
                  = stats.dps.d * stats.totalDamageDealt * 1000
        ELSE ~stats.dps.defined

(***************************************************************************)
(* C2 amended: dps is totalDamageDealt / spanSeconds when both endpoints   *)
(* are set and end - start > 0; it is 0 when both endpoints are set and    *)
(* equal; it is undefined only when no endpoint is set.                    *)
(***************************************************************************)
C2_DpsZeroOnEmptySpan ==
    Returned =>
        LET span == stats.timespan.end - stats.timespan.start
        IN  CASE stats.timespan.start # Null /\ stats.timespan.end # Null /\ span > 0 ->
                   /\ stats.dps.defined
                   /\ stats.dps.d > 0
                   /\ stats.dps.n * span = stats.dps.d * stats.totalDamageDealt * 1000
              [] stats.timespan.start # Null /\ stats.timespan.end # Null /\ span <= 0 ->
                   /\ span = 0
                   /\ stats.dps = DpsOf(RatInt(0))
              [] OTHER ->
                   /\ stats.timespan.start = Null
                   /\ stats.timespan.end = Null
                   /\ ~stats.dps.defined

\* Damage was dealt, and every timestamped event carries the same timestamp.
C2_Witness ==
    /\ Returned
    /\ stats.totalDamageDealt > 0
    /\ stats.timespan.start # Null
    /\ stats.timespan.start = stats.timespan.end
    /\ stats.dps = DpsOf(RatInt(0))

(***************************************************************************)
(* C3 as claimed: totalDamageDealt is the sum of the damage of the         *)
(* damage_dealt events, shotsHit their number, and for every target name   *)
(* the per-target total is the sum of the damage of the damage_dealt       *)
(* events naming it (a name no damage_dealt event carries has no entry);   *)
(* miss and damage_received events contribute nothing.                     *)
(***************************************************************************)
TargetNames(evs) ==
    {evs[i].target : i \in {j \in 1..Len(evs) : evs[j].type = "damage_dealt"}} \ {""}

C3_DealtTotalsAndPerTarget ==
    Returned =>
        /\ stats.totalDamageDealt = TotalDamage(OfType(events, "damage_dealt"))
        /\ stats.shotsHit = Len(OfType(events, "damage_dealt"))
        /\ DOMAIN stats.targets = TargetNames(events)
        /\ \A t \in TargetNames(events) :
              stats.targets[t] = JsNumber(TotalDamage(DealtTo(events, t)))

\* The same statement for the target names that Object.prototype does not
\* define: there the per-target totals are the sums.
DealtTotalsForPlainNames ==
    Returned =>
        /\ stats.totalDamageDealt = TotalDamage(OfType(events, "damage_dealt"))
        /\ stats.shotsHit = Len(OfType(events, "damage_dealt"))
        /\ DOMAIN stats.targets = TargetNames(events)
        /\ \A t \in TargetNames(events) \ ObjectPrototypeKeys :
              stats.targets[t] = JsNumber(TotalDamage(DealtTo(events, t)))

(***************************************************************************)
(* Calculator claims.                                                      *)
(***************************************************************************)
Forward == component = "calc" /\ calcPc = "forward"
Inverse == component = "calc" /\ calcPc = "inverse"
RoundTrip == component = "calc" /\ calcPc = "roundtrip"

PositiveGeometry ==
    /\ Gt(params.distance, Num(0))
    /\ Gt(params.trackingSpeed, Num(0))
    /\ Gt(params.signatureRadius, Num(0))

\* -log2(targetHitChance), the exponent the target hit chance requires.
RequiredExponent == LogBaseHalf(params.targetHitChance)
RangeOfRequest ==
    calculateRangeComponent(params.distance, params.optimalRange, params.falloff)

(***************************************************************************)
(* C6 as claimed, on positive distance, tracking speed and signature       *)
(* radius: for a target hit chance strictly between 0 and 1 whose range    *)
(* component does not exceed -log2(targetHitChance), equality included,    *)
(* calculateHitChance on the transversal that calculateMaxTransversal      *)
(* returned reproduces the target hit chance.                              *)
(***************************************************************************)
C6_RoundTripUpToEquality ==
    (/\ RoundTrip
     /\ PositiveGeometry
     /\ Gt(params.targetHitChance, Num(0))
     /\ Lt(params.targetHitChance, Num(1))
     /\ Le(RangeOfRequest, RequiredExponent))
        => hit.hitChance = params.targetHitChance

\* The round trip where the range component is strictly below the required
\* exponent: there the target hit chance is reproduced.
RoundTripBelowRequiredExponent ==
    (/\ RoundTrip
     /\ PositiveGeometry
     /\ Gt(params.targetHitChance, Num(0))
     /\ Lt(params.targetHitChance, Num(1))
     /\ Lt(RangeOfRequest, RequiredExponent))
        => hit.hitChance = params.targetHitChance

(***************************************************************************)
(* C7 as claimed: whatever the parameters, calculateMaxTransversal returns *)
(* a number >= 0 or +Infinity, never a negative number, and returns 0 when *)
(* targetHitChance <= 0 or > 1.                                            *)
(***************************************************************************)
C7_MaxTransversalNeverNegative ==
    Inverse =>
        /\ Le(Num(0), maxTransversal)
        /\ (Le(params.targetHitChance, Num(0)) \/ Gt(params.targetHitChance, Num(1)))
              => maxTransversal = Num(0)

\* The same for positive distance, tracking speed and signature radius.
MaxTransversalNonNegativeOnPositiveGeometry ==
    (Inverse /\ PositiveGeometry) =>
        /\ Le(Num(0), maxTransversal)
        /\ (Le(params.targetHitChance, Num(0)) \/ Gt(params.targetHitChance, Num(1)))
              => maxTransversal = Num(0)

(***************************************************************************)
(* C8: every result of calculateHitChance reports a hitChance with         *)
(* 0 <= hitChance <= 1 that equals 0.5 raised to the sum of the            *)
(* trackingComponent and rangeComponent of the same result.                *)
(***************************************************************************)
C8_HitChanceIsHalvingLaw ==
    (component = "calc" /\ hit.called) =>
        /\ Le(Num(0), hit.hitChance)
        /\ Le(hit.hitChance, Num(1))
        /\ hit.hitChance = PowHalf(Add(hit.trackingComponent, hit.rangeComponent))

\* A result whose two components are both finite and positive.
C8_Witness ==
    /\ Forward
    /\ IsFinite(hit.trackingComponent) /\ Sign(hit.trackingComponent) > 0
    /\ IsFinite(hit.rangeComponent) /\ Sign(hit.rangeComponent) > 0
    /\ Lt(Num(0), hit.hitChance)
    /\ Lt(hit.hitChance, Num(1))

(***************************************************************************)
(* C9 as claimed: with transversal 0 and trackingSpeed and signatureRadius *)
(* both > 0, calculateHitChance reports angularVelocity = 0 and            *)
(* trackingComponent = 0, for every distance.                              *)
(***************************************************************************)
C9_ZeroTransversalAnyDistance ==
    (/\ Forward
     /\ params.transversal = Num(0)
     /\ Gt(params.trackingSpeed, Num(0))
     /\ Gt(params.signatureRadius, Num(0)))
        => /\ hit.angularVelocity = Num(0)
           /\ hit.trackingComponent = Num(0)

(***************************************************************************)
(* C9 amended: with transversal 0 and trackingSpeed and signatureRadius    *)
(* both > 0, calculateHitChance reports angularVelocity = 0 and            *)
(* trackingComponent = 0, for every distance > 0.                          *)
(***************************************************************************)
C9_ZeroTransversalPositiveDistance ==
    (/\ Forward
     /\ params.transversal = Num(0)
     /\ Gt(params.trackingSpeed, Num(0))
     /\ Gt(params.signatureRadius, Num(0))
     /\ Gt(params.distance, Num(0)))
        => /\ hit.angularVelocity = Num(0)
           /\ hit.trackingComponent = Num(0)

\* A result for transversal 0 at a positive distance beyond the optimal range.
C9_Witness ==
    /\ Forward
    /\ params.transversal = Num(0)
    /\ Gt(params.trackingSpeed, Num(0))
    /\ Gt(params.signatureRadius, Num(0))
    /\ Gt(params.distance, params.optimalRange)
    /\ hit.angularVelocity = Num(0)
    /\ hit.trackingComponent = Num(0)

(***************************************************************************)
(* Reference definitions for the parser claims.                            *)
(***************************************************************************)
\* Which of the patterns match the content of a line: the text after the
\* (type) marker; combat when the marker is (combat).
FactsOf(line) ==
    LET lineMatch == Match(line, LOG_LINE_REGEX)
        text == Group(line, lineMatch, 2)
    IN  [line |-> line,
         combat |-> lineMatch.ok /\ Group(line, lineMatch, 1) = COMBAT,
         dealt |-> lineMatch.ok /\ Match(text, DAMAGE_DEALT_REGEX).ok,
         received |-> lineMatch.ok /\ Match(text, DAMAGE_RECEIVED_REGEX).ok,
         miss |-> lineMatch.ok /\ Match(text, MISS_REGEX).ok]

LineFacts == {FactsOf(l) : l \in LineDomain}
Facts(line) == CHOOSE f \in LineFacts : f.line = line

\* The parser has just parsed lines[lineIdx] into lastEvent.
JustParsed == component = "parser" /\ lineIdx > 0

\* The k-th line-feed-separated line of s.
LineOf(s, k) ==
    LET cuts == {i \in 1..Len(s) : s[i] = "\n"} \cup {0, Len(s) + 1}
        Nth(n) == CHOOSE c \in cuts : Cardinality({d \in cuts : d < c}) = n
    IN  SubSeq(s, Nth(k - 1) + 1, Nth(k) - 1)

LineCount(s) == Cardinality({i \in 1..Len(s) : s[i] = "\n"}) + 1

\* What parseCombatLine yields for lines k.. of s, nulls and unknowns removed.
RECURSIVE YieldedFrom(_, _)
YieldedFrom(s, k) ==
    IF k > LineCount(s) THEN <<>>
    ELSE LET event == ParsedLine(LineOf(s, k))
         IN  IF event.isNull \/ event.type = "unknown" THEN YieldedFrom(s, k + 1)
             ELSE <<event>> \o YieldedFrom(s, k + 1)

(***************************************************************************)
(* C4: for any combat line, parseCombatLine attempts the damage-dealt,     *)
(* damage-received and miss patterns in that order, all three              *)
(* unconditionally, and the event type is that of the last pattern that    *)
(* matched: miss if the miss pattern matches, otherwise damage_received if *)
(* that pattern matches, otherwise damage_dealt if that pattern matches,   *)
(* otherwise unknown.  A pattern that matched leaves its fields on the     *)
(* event whichever pattern decides the type.                               *)
(***************************************************************************)
C4_LastMatchingPatternWins ==
    (JustParsed /\ Facts(lines[lineIdx]).combat) =>
        LET f == Facts(lines[lineIdx])
        IN  /\ ~lastEvent.isNull
            /\ lastEvent.type = IF f.miss THEN "miss"
                                ELSE IF f.received THEN "damage_received"
                                ELSE IF f.dealt THEN "damage_dealt"
                                ELSE "unknown"
            /\ (lastEvent.damage # Null) <=> (f.dealt \/ f.received)
            /\ (lastEvent.source # Undefined) <=> f.received
            /\ (lastEvent.target # Undefined) <=> (f.dealt \/ f.miss)

\* A combat line that all three patterns match: a miss that carries the
\* damage and the source the two earlier patterns extracted.
C4_Witness ==
    /\ JustParsed
    /\ Facts(lines[lineIdx]).dealt
    /\ Facts(lines[lineIdx]).received
    /\ Facts(lines[lineIdx]).miss
    /\ lastEvent.type = "miss"
    /\ lastEvent.damage # Null
    /\ lastEvent.source # Undefined

(***************************************************************************)
(* C5: for every input text, parseLogContent returns exactly the events    *)
(* that parseCombatLine yields for the line-feed-separated lines, with     *)
(* null results and events of type unknown removed and the original line   *)
(* order preserved; no event of type unknown ever appears in the returned  *)
(* sequence.                                                               *)
(***************************************************************************)
C5_ReturnsKnownEventsInLineOrder ==
    component = "parser" =>
        /\ parserPc = "done" => parsedEvents = YieldedFrom(logContent, 1)
        /\ \A i \in 1..Len(parsedEvents) :
              ~parsedEvents[i].isNull /\ parsedEvents[i].type # "unknown"

\* A returned log of two lines and more: an unknown combat line was dropped and
\* a later line was kept.
C5_Witness ==
    /\ component = "parser"
    /\ parserPc = "done"
    /\ Len(lines) >= 2
    /\ ParsedLine(lines[1]).type = "unknown"
    /\ Len(parsedEvents) >= 1

(***************************************************************************)
(* C10 as claimed: parseCombatLine classifies the combat line              *)
(* `[ 2024.01.15 20:30:00 ] (combat) 50 <b>Wrecking</b> damage to          *)
(* <b><color=#FF0000>Some Target</color></b> -                             *)
(* <color=#FFFFFF><font size=12>Railgun</font>` as damage_dealt with       *)
(* damage = 50, target = "Some Target", weapon = "Railgun".                *)
(***************************************************************************)
C10_ExampleLineIsDamageDealt ==
    (JustParsed /\ lines[lineIdx] = ExampleLine) =>
        /\ lastEvent.type = "damage_dealt"
        /\ lastEvent.damage = 50
        /\ lastEvent.target = SomeTarget
        /\ lastEvent.weapon = Railgun

\* What the parser makes of that line: no classification pattern matches it,
\* so the event stays unknown with no damage and no target; only the weapon
\* is extracted.
ExampleLineStaysUnknown ==
    (JustParsed /\ lines[lineIdx] = ExampleLine) =>
        /\ lastEvent.type = "unknown"
        /\ lastEvent.damage = Null
        /\ lastEvent.target = Undefined
        /\ lastEvent.weapon = Railgun

(***************************************************************************)
(* C11: in calculateStats, processing a damage_received event changes only *)
(* totalDamageReceived (increased by the event's damage) and, if the event *)
(* has a timestamp, the timespan; shotsHit, shotsMissed, totalDamageDealt, *)
(* the per-target map, the per-weapon map and the hit-quality counts are   *)
(* left unchanged, even when the event carries a weapon, target or         *)
(* hitQuality field.                                                       *)
(***************************************************************************)
C11_DamageReceivedFrame ==
    [][(/\ component = "stats"
        /\ idx' = idx + 1
        /\ events[idx + 1].type = "damage_received")
          => LET e == events[idx + 1]
             IN  /\ stats'.totalDamageReceived = stats.totalDamageReceived + e.damage
                 /\ e.timestamp = Null => stats'.timespan = stats.timespan
                 /\ stats'.shotsHit = stats.shotsHit
                 /\ stats'.shotsMissed = stats.shotsMissed
                 /\ stats'.totalDamageDealt = stats.totalDamageDealt
                 /\ stats'.targets = stats.targets
                 /\ stats'.weapons = stats.weapons
                 /\ stats'.hitQualities = stats.hitQualities
                 /\ stats'.hitRate = stats.hitRate
                 /\ stats'.dps = stats.dps]_vars

\* The loop has just processed a damage_received event that carries a weapon,
\* a target and a hit quality, and no weapon, target or hit quality is recorded.
C11_Witness ==
    /\ component = "stats"
    /\ idx > 0
    /\ events[idx].type = "damage_received"
    /\ events[idx].weapon # ""
    /\ events[idx].target # ""
    /\ events[idx].hitQuality # ""
    /\ stats.totalDamageReceived > 0
    /\ stats.weapons = EmptyMap
    /\ stats.targets = EmptyMap
    /\ stats.hitQualities = EmptyMap

(***************************************************************************)
(* C12: for every event sequence, calculateStats returns timespan.start    *)
(* equal to the minimum and timespan.end equal to the maximum timestamp    *)
(* over all events that carry a timestamp, regardless of event type and of *)
(* the order of the events; both are null exactly when no event carries a  *)
(* timestamp, and start <= end whenever both are set.                      *)
(***************************************************************************)
Timestamps(evs) == {evs[i].timestamp : i \in 1..Len(evs)} \ {Null}

C12_TimespanIsMinAndMax ==
    Returned =>
        LET seen == Timestamps(events)
        IN  IF seen = {}
            THEN stats.timespan.start = Null /\ stats.timespan.end = Null
            ELSE /\ stats.timespan.start # Null
                 /\ stats.timespan.end # Null
                 /\ stats.timespan.start \in seen
                 /\ stats.timespan.end \in seen
                 /\ \A t \in seen : stats.timespan.start <= t /\ t <= stats.timespan.end
                 /\ stats.timespan.start <= stats.timespan.end

\* Three events, the later timestamp first, the earlier second, none on the
\* third, of which one is neither damage dealt nor a miss.
C12_Witness ==
    /\ Returned
    /\ Len(events) = 3
    /\ events[1].timestamp # Null
    /\ events[2].timestamp # Null
    /\ events[3].timestamp = Null
    /\ events[1].timestamp > events[2].timestamp
    /\ events[1].type \in {"unknown", "damage_received"}
    /\ stats.timespan.start = events[2].timestamp
    /\ stats.timespan.end = events[1].timestamp

(***************************************************************************)
(* C13 as claimed: calculateStats is independent of event order: for any   *)
(* event sequence and any permutation of it, the two results have equal    *)
(* totalDamageDealt, totalDamageReceived, shotsHit, shotsMissed, hitRate,  *)
(* timespan, dps, and equal per-target, per-weapon and per-hit-quality     *)
(* mappings (compared as mappings, ignoring key insertion order).          *)
(***************************************************************************)
\* The rearrangements of evs.
Rearrangements(evs) ==
    {[i \in 1..Len(evs) |-> evs[p[i]]] : p \in Permutations(1..Len(evs))}

C13_OrderIndependent ==
    Returned =>
        /\ stats = calculateStats(events)
        /\ \A other \in Rearrangements(events) : calculateStats(other) = stats

\* The same statement for the events whose target and hit quality are names
\* that Object.prototype does not define.
PlainNames(evs) ==
    \A i \in 1..Len(evs) :
        /\ evs[i].target \notin ObjectPrototypeKeys
        /\ evs[i].hitQuality \notin ObjectPrototypeKeys

OrderIndependentForPlainNames ==
    (Returned /\ PlainNames(events)) =>
        /\ stats = calculateStats(events)
        /\ \A other \in Rearrangements(events) : calculateStats(other) = stats

(***************************************************************************)
(* C14 as claimed: in any sequence of login, callback and logout requests  *)
(* on one session, the callback handler proceeds to the token exchange     *)
(* only if a login was initiated on that session and the callback's state  *)
(* query parameter equals the ssoState stored by that login; a callback on *)
(* a session with no stored ssoState is always rejected; after a           *)
(* successful callback ssoState and ssoVerifier are removed from the       *)
(* session.                                                                *)
(***************************************************************************)
Exchanging == component = "sso" /\ ssoPc = "exchange"
SignedIn == component = "sso" /\ response = "signed in"

C14_ExchangeOnlyAfterLoginWithItsState ==
    /\ Exchanging => /\ session.ssoState \in StateValues
                     /\ query.state = session.ssoState
    /\ SignedIn => session.ssoState = NoValue /\ session.ssoVerifier = NoValue

\* What the handler does enforce: the exchange is reached only when the
\* state parameter and the stored ssoState are strictly equal, both being
\* undefined included; a successful callback leaves neither ssoState nor
\* ssoVerifier on the session.
ExchangeOnlyOnStrictlyEqualState ==
    /\ Exchanging => query.state = session.ssoState
    /\ SignedIn => session.ssoState = NoValue /\ session.ssoVerifier = NoValue

\* A callback without a state parameter, on a session where no login is
\* pending, has reached the token exchange.
ExchangeWithoutLogin ==
    /\ Exchanging
    /\ session.ssoState = NoValue
    /\ query.state = NoValue

====
